---- MODULE Spec2Model ----
(***************************************************************************)
(* A model of the newt-sys build script (build/build.rs and                *)
(* build/build_config.rs): the orchestration in main(), the per-package    *)
(* recipes build_popt / build_slang / build_newt, the bracketing of the    *)
(* process environment around each of them, GNU Make detection and the     *)
(* derivation of the build paths.                                          *)
(*                                                                         *)
(* Strings are TLC strings (Len, \o and SubSeq apply to them).  An         *)
(* Option<T> is a sequence of length at most one: None is << >>, Some(v)   *)
(* is <<v>>.  The process environment is a function from variable names    *)
(* to Option<String>.  A panic (unwrap / expect / panic!) moves the        *)
(* program to pc = "panicked" and leaves every other variable as the       *)
(* aborted process left it.                                                *)
(***************************************************************************)
EXTENDS Integers, Sequences, FiniteSets, TLC

VARIABLES
    pc,             \* position of the single thread of control in main()
    panicFrom,      \* the position at which the process panicked ("" if it has not)
    env,            \* the process environment
    env0,           \* the environment the process was started with (history)
    cwd,            \* the process working directory
    featureStatic,  \* cfg!(feature = "static")
    vendor,         \* the files present under <crate>/vendor
    statik,         \* main's local `statik`
    result,         \* main's local `result`: the system-wide probe, None = Err
    tried,          \* the candidates find_gnu_make has run, with their output (history)
    MAKE,           \* the lazy static MAKE, None until a GNU Make is found
    pkg,            \* index in Packages of the package build() is working on
    cfg,            \* build()'s local build_cfg, None outside build()
    old_dir,        \* build()'s local old_dir
    libraries,      \* build_libs' local `libraries`
    library,        \* build()'s local `library`, None until the probe returned
    lib,            \* main's local `lib`, None until it is bound
    steps,          \* the recipe steps executed so far, in order (history)
    toolFailed,     \* some tar / configure / make exited non-zero or failed to spawn (history)
    ended,          \* the build() calls that ended, and how (history)
    stdout,         \* the cargo directives printed so far
    qa, qb,         \* two argument tuples for BuildConfig::new (path derivation)
    ra, rb          \* the BuildConfig each of the two calls returned

vars == <<pc, panicFrom, env, env0, cwd, featureStatic, vendor, statik, result,
          tried, MAKE, pkg, cfg, old_dir, libraries, library, lib, steps,
          toolFailed, ended, stdout, qa, qb, ra, rb>>

mainVars == <<pc, panicFrom, env, env0, cwd, featureStatic, vendor, statik, result,
              tried, MAKE, pkg, cfg, old_dir, libraries, library, lib, steps,
              toolFailed, ended, stdout>>

cfgVars == <<qa, qb, ra, rb>>

(***************************************************************************)
(* Option and string helpers (the std library calls the code makes).       *)
(***************************************************************************)
None == << >>

Some(v) == <<v>>

IsSome(o) == o # None

Unwrap(o) == o[1]

\* Option::unwrap_or_default on an Option<String>
UnwrapOrDefault(o) == IF IsSome(o) THEN Unwrap(o) ELSE ""

\* str::starts_with, which is what the anchored regex \A<literal> decides
StartsWith(s, p) == Len(s) >= Len(p) /\ SubSeq(s, 1, Len(p)) = p

\* str::contains
Contains(s, sub) ==
    \E i \in 1..(Len(s) - Len(sub) + 1) : SubSeq(s, i, i + Len(sub) - 1) = sub

(***************************************************************************)
(* Program constants.                                                      *)
(***************************************************************************)
NEWT_VERSION == "0.52.25"

POPT_VERSION == "1.19"

SLANG_VERSION == "2.3.3"

OLD_CFLAGS_ENV == "_OLD_CFLAGS"

\* build_libs builds the packages in this order
Packages == <<"popt", "slang", "newt">>

Versions == <<POPT_VERSION, SLANG_VERSION, NEWT_VERSION>>

\* the candidates of find_gnu_make, in the order it tries them
Candidates == <<"make", "gmake">>

StaticDirective == "cargo:rustc-link-lib=static=newt"

EnvNames == {"CC", "CFLAGS", OLD_CFLAGS_ENV, "CPPFLAGS", "LDFLAGS",
             "PKG_CONFIG_PATH", "PKG_CONFIG_SYSROOT_DIR", "NEWT_STATIC",
             "OUT_DIR", "TARGET", "CARGO_MANIFEST_DIR"}

(***************************************************************************)
(* std::env                                                                *)
(***************************************************************************)
set_var(e, k, v) == [e EXCEPT ![k] = Some(v)]

remove_var(e, k) == [e EXCEPT ![k] = None]

(***************************************************************************)
(* build_config.rs                                                         *)
(***************************************************************************)
\* A plausible slip: the TARGET triple is handed on untranslated.
target_raw(e) == Unwrap(e["TARGET"])

\* fn target(): the TARGET triple, translated for autotools
target(e) ==
    LET t == Unwrap(e["TARGET"])
    IN  IF t = "riscv64gc-unknown-linux-gnu"
        THEN "riscv64-unknown-linux-gnu"
        ELSE t

\* the extensions find_archive tries, in its order
Extensions == <<".tar.bz2", ".tar.gz">>

\* fn file_exists(path): `files` is the set of regular files that exist
file_exists(path, files) == path \in files

\* A plausible slip: the gzip name is returned without looking on disk when
\* no file is found.
find_archive_unchecked(version_name, e, files) ==
    LET archive_base == Unwrap(e["CARGO_MANIFEST_DIR"]) \o "/vendor/" \o version_name
        hits == {i \in DOMAIN Extensions :
                    file_exists(archive_base \o Extensions[i], files)}
    IN  IF hits = {}
        THEN Some(archive_base \o ".tar.gz")
        ELSE Some(archive_base \o
                  Extensions[CHOOSE i \in hits : \A j \in hits : i <= j])

\* fn find_archive(version_name): the first extension whose file exists
find_archive(version_name, e, files) ==
    LET archive_base == Unwrap(e["CARGO_MANIFEST_DIR"]) \o "/vendor/" \o version_name
        hits == {i \in DOMAIN Extensions :
                    file_exists(archive_base \o Extensions[i], files)}
    IN  IF hits = {}
        THEN None
        ELSE Some(archive_base \o
                  Extensions[CHOOSE i \in hits : \A j \in hits : i <= j])

\* A plausible slip: src_path is derived from the output root, not from build_prefix.
BuildConfig_new_flat(package, version, e, files) ==
    LET out_dir == Unwrap(e["OUT_DIR"])
        version_name == package \o "-" \o version
        build_prefix == out_dir \o "/build"
        src_path == out_dir \o "/" \o version_name
        install_prefix == out_dir \o "/install/" \o version_name
        pkg_config_path == install_prefix \o "/lib/pkgconfig"
        archive == find_archive(version_name, e, files)
    IN  IF archive = None
        THEN None
        ELSE Some([target |-> target(e),
                   build_prefix |-> build_prefix,
                   archive_path |-> Unwrap(archive),
                   src_path |-> src_path,
                   install_prefix |-> install_prefix,
                   pkg_config_path |-> pkg_config_path,
                   autoconf_aux_path |-> None])

\* A plausible slip: the staging root is taken relative to the crate, not OUT_DIR.
BuildConfig_new_crate(package, version, e, files) ==
    LET out_dir == Unwrap(e["CARGO_MANIFEST_DIR"])
        version_name == package \o "-" \o version
        build_prefix == out_dir \o "/build"
        src_path == build_prefix \o "/" \o version_name
        install_prefix == out_dir \o "/install/" \o version_name
        pkg_config_path == install_prefix \o "/lib/pkgconfig"
        archive == find_archive(version_name, e, files)
    IN  IF archive = None
        THEN None
        ELSE Some([target |-> target(e),
                   build_prefix |-> build_prefix,
                   archive_path |-> Unwrap(archive),
                   src_path |-> src_path,
                   install_prefix |-> install_prefix,
                   pkg_config_path |-> pkg_config_path,
                   autoconf_aux_path |-> None])

\* BuildConfig::new(package, version).  It reads OUT_DIR, TARGET and
\* CARGO_MANIFEST_DIR from the environment and looks the archive up on disk;
\* None stands for the panic of find_archive(..).unwrap().
BuildConfig_new(package, version, e, files) ==
    LET out_dir == Unwrap(e["OUT_DIR"])
        version_name == package \o "-" \o version
        build_prefix == out_dir \o "/build"
        src_path == build_prefix \o "/" \o version_name
        install_prefix == out_dir \o "/install/" \o version_name
        pkg_config_path == install_prefix \o "/lib/pkgconfig"
        archive == find_archive(version_name, e, files)
    IN  IF archive = None
        THEN None
        ELSE Some([target |-> target(e),
                   build_prefix |-> build_prefix,
                   archive_path |-> Unwrap(archive),
                   src_path |-> src_path,
                   install_prefix |-> install_prefix,
                   pkg_config_path |-> pkg_config_path,
                   autoconf_aux_path |-> None])

\* BuildConfig::set_autoconf_aux_path(path): PathBuf::push of a relative path
set_autoconf_aux_path(c, path) ==
    [c EXCEPT !.autoconf_aux_path = Some(c.src_path \o "/" \o path)]

(***************************************************************************)
(* build.rs: GNU Make detection                                            *)
(***************************************************************************)
\* A plausible slip: the regex is not anchored.
check_make_anywhere(output) ==
    IsSome(output) /\ Contains(Unwrap(output), "GNU Make")

\* fn check_make(make), on what running the candidate yielded: its captured
\* standard output, or None when it could not be spawned (Command::output()
\* is Err).  The regex \AGNU Make matches at the first character only.
check_make(output) ==
    IsSome(output) /\ StartsWith(Unwrap(output), "GNU Make")

(***************************************************************************)
(* build.rs: the environment brackets                                      *)
(***************************************************************************)
\* A plausible slip: the new directory is put in front of the old value.
append_pkg_config_path_prepend(e, path) ==
    IF IsSome(e["PKG_CONFIG_PATH"])
    THEN set_var(e, "PKG_CONFIG_PATH", path \o ":" \o Unwrap(e["PKG_CONFIG_PATH"]))
    ELSE set_var(e, "PKG_CONFIG_PATH", path)

\* A plausible slip: the old value is dropped.
append_pkg_config_path_replace(e, path) == set_var(e, "PKG_CONFIG_PATH", path)

\* fn append_pkg_config_path(path)
append_pkg_config_path(e, path) ==
    IF IsSome(e["PKG_CONFIG_PATH"])
    THEN set_var(e, "PKG_CONFIG_PATH", Unwrap(e["PKG_CONFIG_PATH"]) \o ":" \o path)
    ELSE set_var(e, "PKG_CONFIG_PATH", path)

RECURSIVE JoinFlags(_, _)
\* the push_str loop over one path list: "<marker><path> " for each path
JoinFlags(marker, paths) ==
    IF paths = << >>
    THEN ""
    ELSE marker \o Head(paths) \o " " \o JoinFlags(marker, Tail(paths))

RECURSIVE IncludeFlags(_)
\* include_paths as export_env_libs accumulates it over libs
IncludeFlags(libs) ==
    IF libs = << >>
    THEN ""
    ELSE JoinFlags("-I", Head(libs).include_paths) \o IncludeFlags(Tail(libs))

RECURSIVE LinkFlags(_)
\* link_paths as export_env_libs accumulates it over libs
LinkFlags(libs) ==
    IF libs = << >>
    THEN ""
    ELSE JoinFlags("-L", Head(libs).link_paths) \o LinkFlags(Tail(libs))

\* A plausible slip: the flags are appended to what the variable holds.
export_env_libs_append(e, libs) ==
    LET include_paths == IncludeFlags(libs)
        link_paths == LinkFlags(libs)
        e1 == IF include_paths # ""
              THEN set_var(e, "CPPFLAGS", UnwrapOrDefault(e["CPPFLAGS"]) \o include_paths)
              ELSE e
    IN  IF link_paths # ""
        THEN set_var(e1, "LDFLAGS", UnwrapOrDefault(e1["LDFLAGS"]) \o link_paths)
        ELSE e1

\* A plausible slip: only the most recently built dependency is exported.
export_env_libs_last(e, libs) ==
    LET last == IF libs = << >> THEN << >> ELSE <<libs[Len(libs)]>>
        include_paths == IncludeFlags(last)
        link_paths == LinkFlags(last)
        e1 == IF include_paths # "" THEN set_var(e, "CPPFLAGS", include_paths) ELSE e
    IN  IF link_paths # "" THEN set_var(e1, "LDFLAGS", link_paths) ELSE e1

\* fn export_env_libs(libs)
export_env_libs(e, libs) ==
    LET include_paths == IncludeFlags(libs)
        link_paths == LinkFlags(libs)
        e1 == IF include_paths # "" THEN set_var(e, "CPPFLAGS", include_paths) ELSE e
    IN  IF link_paths # "" THEN set_var(e1, "LDFLAGS", link_paths) ELSE e1

\* fn unset_env_libs()
unset_env_libs(e) == remove_var(remove_var(e, "CPPFLAGS"), "LDFLAGS")

\* fn cflags_set_fpic()
cflags_set_fpic(e) ==
    LET cflags == UnwrapOrDefault(e["CFLAGS"])
    IN  IF ~Contains(cflags, "-fPIC")
        THEN set_var(set_var(e, OLD_CFLAGS_ENV, cflags), "CFLAGS", cflags \o " -fPIC")
        ELSE e

\* fn cflags_restore()
cflags_restore(e) ==
    IF IsSome(e[OLD_CFLAGS_ENV])
    THEN remove_var(set_var(e, "CFLAGS", Unwrap(e[OLD_CFLAGS_ENV])), OLD_CFLAGS_ENV)
    ELSE e

\* A plausible slip: the resolved compiler replaces a CC that is already set.
set_cc_always(e, compiler) ==
    IF IsSome(compiler)
    THEN set_var(e, "CC", Unwrap(compiler))
    ELSE e

\* fn set_cc(): `compiler` is what compiler() returned
set_cc(e, compiler) ==
    IF IsSome(compiler) /\ ~IsSome(e["CC"])
    THEN set_var(e, "CC", Unwrap(compiler))
    ELSE e

(***************************************************************************)
(* Bounds and the inputs drawn from them.                                  *)
(***************************************************************************)
\* the largest number of include paths, and of link paths, a probe reports
MaxPaths == 1

TOP == "/crate"

OutDir == "/out"

RECURSIVE NthPath(_, _)
\* the i-th directory a probe may report below `base`
NthPath(base, i) == IF i = 1 THEN base ELSE NthPath(base, i - 1) \o "/sub"

\* A pkg_config::Library as far as the script reads it
Library(name, prefix, n, m) ==
    [name |-> name,
     include_paths |-> [i \in 1..n |-> NthPath(prefix \o "/include", i)],
     link_paths |-> [i \in 1..m |-> NthPath(prefix \o "/lib", i)]]

\* What a successful probe of a freshly installed package may report: up to
\* MaxPaths directories below its prefix, or none (directories the system
\* already searches are not reported)
ProbeResults(name, c) ==
    {Library(name, c.install_prefix, n, n) : n \in 0..MaxPaths}

\* What the system-wide probe for libnewt reports: Err, or the installed library
SystemProbeResults == {None, Some(Library("libnewt", "/usr", 1, 0))}

\* How a spawned tool ends: exit status 0, a non-zero exit status, or no spawn
Outcomes == {"ok", "nonzero", "spawn_error"}

\* What a make candidate prints; None: it cannot be spawned
MakeOutputs ==
    {None, Some(""), Some("GNU Make 4.3\nBuilt for x86_64-pc-linux-gnu"),
     Some("GNU Make 3.81"), Some("This is not GNU Make"), Some("gnu make 4.3"),
     Some("bmake: illegal option")}

\* the same, for the runs that go on to build
FewMakeOutputs == {Some("GNU Make 4.3\nBuilt for x86_64-pc-linux-gnu"),
                   Some("This is not GNU Make")}

Archive(version_name, ext) == TOP \o "/vendor/" \o version_name \o ext

\* the archives the crate ships
Shipped == {Archive("popt-1.19", ".tar.gz"), Archive("slang-2.3.3", ".tar.bz2"),
            Archive("newt-0.52.25", ".tar.gz")}

\* vendor directories: as shipped, with a second archive, with one missing
VendorDirs == {Shipped,
               Shipped \cup {Archive("newt-0.52.25", ".tar.bz2")},
               Shipped \ {Archive("slang-2.3.3", ".tar.bz2")}}

\* the environments the script may be started in
InitEnvs ==
    {[k \in EnvNames |->
        CASE k = "CC" -> cc
          [] k = "CFLAGS" -> cflags
          [] k = OLD_CFLAGS_ENV -> old
          [] k = "CPPFLAGS" -> cpp
          [] k = "LDFLAGS" -> ld
          [] k = "PKG_CONFIG_PATH" -> pcp
          [] k = "PKG_CONFIG_SYSROOT_DIR" -> None
          [] k = "NEWT_STATIC" -> ns
          [] k = "OUT_DIR" -> Some(OutDir)
          [] k = "TARGET" -> Some("riscv64gc-unknown-linux-gnu")
          [] k = "CARGO_MANIFEST_DIR" -> Some(TOP)] :
        cc \in {None, Some("clang")},
        cflags \in {None, Some("-O2"), Some("-O2 -fPIC")},
        old \in {None, Some("-g")},
        cpp \in {None, Some("-I/opt/include")},
        ld \in {None, Some("-L/opt/lib")},
        pcp \in {None, Some("/usr/lib/pkgconfig")},
        ns \in {None, Some("1")}}

\* the arguments of BuildConfig::new compared by the path-derivation properties;
\* `cflags` is a variable the derivation must not read, `bz2` tells whether the
\* vendor directory of the call also holds a bzip2 archive of the package
CfgPackages == {"popt", "slang", "newt"}

CfgVersions == {"1.19", "2.3.3"}

CfgOutDirs == {"/tmp/x", "/tmp/y"}

CfgTargets == {"riscv64gc-unknown-linux-gnu", "riscv64-unknown-linux-gnu",
               "x86_64-unknown-linux-gnu"}

CfgInputs ==
    [package : CfgPackages, version : CfgVersions, out_dir : CfgOutDirs,
     target : CfgTargets, cflags : {None, Some("-O2")}, bz2 : BOOLEAN]

\* the vendor directory of a call with arguments q: a gzip archive of every
\* package and version, and the bzip2 archive if q says so
CfgVendor(q) ==
    {Archive(p \o "-" \o v, ".tar.gz") : p \in CfgPackages, v \in CfgVersions}
        \cup (IF q.bz2
              THEN {Archive(q.package \o "-" \o q.version, ".tar.bz2")}
              ELSE {})

\* the environment of a call of BuildConfig::new with arguments q
CfgEnv(q) ==
    [k \in EnvNames |->
        CASE k = "OUT_DIR" -> Some(q.out_dir)
          [] k = "TARGET" -> Some(q.target)
          [] k = "CARGO_MANIFEST_DIR" -> Some(TOP)
          [] k = "CFLAGS" -> q.cflags
          [] OTHER -> None]

(***************************************************************************)
(* The initial state: main() is about to run.                              *)
(***************************************************************************)
InitMain ==
    /\ pc = "main_start"
    /\ panicFrom = ""
    /\ env \in InitEnvs
    /\ env0 = env
    /\ cwd = TOP
    /\ featureStatic \in BOOLEAN
    /\ vendor \in VendorDirs
    /\ statik = FALSE
    /\ result = None
    /\ tried = << >>
    /\ MAKE = None
    /\ pkg = 0
    /\ cfg = None
    /\ old_dir = None
    /\ libraries = << >>
    /\ library = None
    /\ lib = None
    /\ steps = << >>
    /\ toolFailed = FALSE
    /\ ended = {}
    /\ stdout = << >>

Init ==
    /\ InitMain
    /\ qa = [package |-> "popt", version |-> "1.19", out_dir |-> "/tmp/x",
             target |-> "x86_64-unknown-linux-gnu", cflags |-> None,
             bz2 |-> FALSE]
    /\ qb = qa
    /\ ra = None
    /\ rb = None

(***************************************************************************)
(* main() and build_libs()                                                 *)
(***************************************************************************)
\* the positions inside build()
BuildPcs == {"new_cfg", "enter", "extract", "patch", "configure", "install",
             "probe", "exit"}

\* A panic at position `from`: the process aborts where it stands.  A panic
\* inside build() ends that call.
Panic(from) ==
    /\ pc' = "panicked"
    /\ panicFrom' = from
    /\ ended' = IF from \in BuildPcs
                THEN ended \cup {[package |-> Packages[pkg], how |-> from]}
                ELSE ended

\* A plausible slip: static linking is read from the feature alone.
StaticRequested_feature(feature, e) == feature

\* main, the value of `statik`
StaticRequested(feature, e) == feature \/ IsSome(e["NEWT_STATIC"])

\* A plausible slip: the libraries are built only when both conditions hold.
BuildFromSource_both(s, r) == s /\ r = None

\* main, the condition of its if: build from source?
BuildFromSource(s, r) == s \/ r = None

\* main up to its if: statik, the system-wide probe, set_cc()
MainStart ==
    /\ pc = "main_start"
    /\ \E probe \in SystemProbeResults, compiler \in {None, Some("/usr/bin/cc")} :
          /\ statik' = StaticRequested(featureStatic, env)
          /\ result' = probe
          /\ env' = set_cc(env, compiler)
    /\ pc' = "main_branch"
    /\ UNCHANGED <<panicFrom, env0, cwd, featureStatic, vendor, tried, MAKE, pkg,
                   cfg, old_dir, libraries, library, lib, steps, toolFailed,
                   ended, stdout, cfgVars>>

\* A plausible slip: main leaves the search for GNU Make to the lazy static.
SourceEntry_lazy == "build_libs"

\* main, the first call of its from-source branch: find_gnu_make()
SourceEntry == "find_make"

\* main's if: the system descriptor, or find_gnu_make() and build_libs()
MainBranch ==
    /\ pc = "main_branch"
    /\ IF BuildFromSource(statik, result)
       THEN pc' = SourceEntry /\ lib' = lib
       ELSE pc' = "build_c" /\ lib' = result
    /\ UNCHANGED <<panicFrom, env, env0, cwd, featureStatic, vendor, statik,
                   result, tried, MAKE, pkg, cfg, old_dir, libraries, library,
                   steps, toolFailed, ended, stdout, cfgVars>>

\* A plausible slip: the candidates are tried in the opposite order.
NextCandidate_reversed(t) == Candidates[Len(Candidates) - Len(t)]

\* find_gnu_make, the candidate its loop runs next
NextCandidate(t) == Candidates[Len(t) + 1]

\* One iteration of find_gnu_make's loop: run the next candidate and test its
\* output; panic when the last candidate is rejected.  main calls it before
\* build_libs (pkg = 0) and drops the value; the lazy static MAKE runs the same
\* search on the same host when make() is first used, so it holds the
\* candidate found here.  Were main's call missing, the search would first run
\* at the first make() of a recipe, and return there.
CheckMake(outputs) ==
    /\ pc = "find_make"
    /\ \E output \in outputs :
          LET make == NextCandidate(tried)
          IN  /\ tried' = Append(tried, [make |-> make, output |-> output])
              /\ IF check_make(output)
                 THEN /\ MAKE' = Some(make)
                      /\ pc' = IF pkg = 0 THEN "build_libs" ELSE "install"
                      /\ UNCHANGED <<panicFrom, ended>>
                 ELSE /\ MAKE' = MAKE
                      /\ IF Len(tried) + 1 = Len(Candidates)
                         THEN Panic("find_make")
                         ELSE pc' = "find_make" /\ UNCHANGED <<panicFrom, ended>>
    /\ UNCHANGED <<env, env0, cwd, featureStatic, vendor, statik, result, pkg,
                   cfg, old_dir, libraries, library, lib, steps, toolFailed,
                   stdout, cfgVars>>

\* build_libs up to its first build(): PKG_CONFIG_SYSROOT_DIR
BuildLibs ==
    /\ pc = "build_libs"
    /\ env' = set_var(env, "PKG_CONFIG_SYSROOT_DIR", Unwrap(env["OUT_DIR"]))
    /\ libraries' = << >>
    /\ pkg' = 1
    /\ pc' = "new_cfg"
    /\ UNCHANGED <<panicFrom, env0, cwd, featureStatic, vendor, statik, result,
                   tried, MAKE, cfg, old_dir, library, lib, steps, toolFailed,
                   ended, stdout, cfgVars>>

(***************************************************************************)
(* build(package, version, libs)                                           *)
(***************************************************************************)
\* build, the autoconf aux directory of a package
AuxPath(c, package) ==
    CASE package = "popt" -> set_autoconf_aux_path(c, "build-aux")
      [] package = "slang" -> set_autoconf_aux_path(c, "autoconf")
      [] OTHER -> c

\* build: BuildConfig::new and set_autoconf_aux_path
BuildNewConfig ==
    /\ pc = "new_cfg"
    /\ LET c == BuildConfig_new(Packages[pkg], Versions[pkg], env, vendor)
       IN  IF c = None
           THEN Panic("new_cfg") /\ cfg' = cfg
           ELSE /\ cfg' = Some(AuxPath(Unwrap(c), Packages[pkg]))
                /\ pc' = "enter"
                /\ UNCHANGED <<panicFrom, ended>>
    /\ UNCHANGED <<env, env0, cwd, featureStatic, vendor, statik, result, tried,
                   MAKE, pkg, old_dir, libraries, library, lib, steps,
                   toolFailed, stdout, cfgVars>>

\* build_libs, the `libs` argument of each build(): None, None, Some(&libraries)
LibsArg(package, libs) == IF package = "newt" THEN Some(libs) ELSE None

\* build: export_env_libs, then current_dir / create_dir_all / set_current_dir,
\* each of which may fail
BuildEnter ==
    /\ pc = "enter"
    /\ LET libs == LibsArg(Packages[pkg], libraries)
       IN  env' = IF IsSome(libs) THEN export_env_libs(env, Unwrap(libs)) ELSE env
    /\ \E ok \in BOOLEAN :
          IF ok
          THEN /\ old_dir' = Some(cwd)
               /\ cwd' = Unwrap(cfg).build_prefix
               /\ pc' = "extract"
               /\ UNCHANGED <<panicFrom, ended>>
          ELSE Panic("enter") /\ UNCHANGED <<old_dir, cwd>>
    /\ UNCHANGED <<env0, featureStatic, vendor, statik, result, tried, MAKE, pkg,
                   cfg, libraries, library, lib, steps, toolFailed, stdout,
                   cfgVars>>

(***************************************************************************)
(* The recipes build_popt, build_slang and build_newt, step by step.       *)
(***************************************************************************)
\* Command::status().expect(..): only a failure to spawn is an Err and panics;
\* the exit status is not looked at
StatusIsErr(outcome) == outcome = "spawn_error"

\* the tar flags of each recipe
TarFlags(package) == IF package = "slang" THEN "xjf" ELSE "xzf"

\* the make target of each recipe
MakeTarget(package) == IF package = "slang" THEN "install-static" ELSE "install"

\* the recipes that call update_gnuconfig_files
HasPatch(package) == package \in {"popt", "slang"}

\* A plausible slip: a tool that exits non-zero is run again.
RunTool_retry(step, detail, outcome, next) ==
    /\ steps' = Append(steps, [package |-> Packages[pkg], step |-> step,
                               detail |-> detail])
    /\ toolFailed' = (toolFailed \/ outcome # "ok")
    /\ IF StatusIsErr(outcome)
       THEN Panic(step)
       ELSE /\ pc' = IF outcome = "nonzero" THEN pc ELSE next
            /\ UNCHANGED <<panicFrom, ended>>

\* A spawned tool of step `step` ended with `outcome`; the recipe goes on to
\* `next` unless .expect() panics.
RunTool(step, detail, outcome, next) ==
    /\ steps' = Append(steps, [package |-> Packages[pkg], step |-> step,
                               detail |-> detail])
    /\ toolFailed' = (toolFailed \/ outcome # "ok")
    /\ IF StatusIsErr(outcome)
       THEN Panic(step)
       ELSE pc' = next /\ UNCHANGED <<panicFrom, ended>>

\* tar; build_slang calls cflags_set_fpic() first
Extract ==
    /\ pc = "extract"
    /\ env' = IF Packages[pkg] = "slang" THEN cflags_set_fpic(env) ELSE env
    /\ \E outcome \in Outcomes :
          RunTool("extract",
                  TarFlags(Packages[pkg]) \o " " \o Unwrap(cfg).archive_path,
                  outcome,
                  IF HasPatch(Packages[pkg]) THEN "patch" ELSE "configure")
    /\ UNCHANGED <<env0, cwd, featureStatic, vendor, statik, result, tried, MAKE,
                   pkg, cfg, old_dir, libraries, library, lib, stdout, cfgVars>>

\* update_gnuconfig_files: two fs::copy(..).unwrap()
Patch ==
    /\ pc = "patch"
    /\ steps' = Append(steps, [package |-> Packages[pkg], step |-> "patch",
                               detail |-> Unwrap(Unwrap(cfg).autoconf_aux_path)])
    /\ \E ok \in BOOLEAN :
          IF ok
          THEN pc' = "configure" /\ UNCHANGED <<panicFrom, ended>>
          ELSE Panic("patch")
    /\ UNCHANGED <<env, env0, cwd, featureStatic, vendor, statik, result, tried,
                   MAKE, pkg, cfg, old_dir, libraries, library, lib, toolFailed,
                   stdout, cfgVars>>

\* set_current_dir(src_path), which may fail, then ./configure
Configure ==
    /\ pc = "configure"
    /\ \E cd \in BOOLEAN :
          IF cd
          THEN /\ cwd' = Unwrap(cfg).src_path
               /\ \E outcome \in Outcomes :
                     RunTool("configure", "--host " \o Unwrap(cfg).target,
                             outcome, "install")
          ELSE Panic("configure") /\ UNCHANGED <<cwd, steps, toolFailed>>
    /\ UNCHANGED <<env, env0, featureStatic, vendor, statik, result, tried, MAKE,
                   pkg, cfg, old_dir, libraries, library, lib, stdout, cfgVars>>

\* make() install / install-static; make() initialises the lazy static MAKE
\* with find_gnu_make() if nothing has yet
Install ==
    /\ pc = "install"
    /\ IF MAKE = None
       THEN pc' = "find_make" /\ UNCHANGED <<panicFrom, ended, steps, toolFailed>>
       ELSE \E outcome \in Outcomes :
               RunTool("install", Unwrap(MAKE) \o " " \o MakeTarget(Packages[pkg]),
                       outcome, "probe")
    /\ UNCHANGED <<env, env0, cwd, featureStatic, vendor, statik, result, tried,
                   MAKE, pkg, cfg, old_dir, libraries, library, lib, stdout,
                   cfgVars>>

\* the name each recipe probes for
ProbeName(package) == IF package = "newt" THEN "libnewt" ELSE package

\* build_slang's cflags_restore(), append_pkg_config_path and the probe, whose
\* Err panics
Probe ==
    /\ pc = "probe"
    /\ LET e1 == IF Packages[pkg] = "slang" THEN cflags_restore(env) ELSE env
       IN  env' = append_pkg_config_path(e1, Unwrap(cfg).pkg_config_path)
    /\ steps' = Append(steps, [package |-> Packages[pkg], step |-> "probe",
                               detail |-> ProbeName(Packages[pkg])])
    /\ \E r \in {None} \cup
                {Some(l) : l \in ProbeResults(ProbeName(Packages[pkg]), Unwrap(cfg))} :
          IF r = None
          THEN Panic("probe") /\ library' = library
          ELSE /\ library' = r
               /\ pc' = "exit"
               /\ UNCHANGED <<panicFrom, ended>>
    /\ UNCHANGED <<env0, cwd, featureStatic, vendor, statik, result, tried, MAKE,
                   pkg, cfg, old_dir, libraries, lib, toolFailed, stdout, cfgVars>>

\* A plausible slip: build() does not change back to the directory it was
\* called in.
BuildExit_stay ==
    /\ pc = "exit"
    /\ \E cd \in BOOLEAN :
          IF cd
          THEN /\ cwd' = cwd
               /\ env' = unset_env_libs(env)
               /\ ended' = ended \cup {[package |-> Packages[pkg], how |-> "returned"]}
               /\ cfg' = None
               /\ old_dir' = None
               /\ library' = None
               /\ panicFrom' = panicFrom
               /\ IF pkg < Len(Packages)
                  THEN /\ libraries' = Append(libraries, Unwrap(library))
                       /\ pkg' = pkg + 1
                       /\ pc' = "new_cfg"
                       /\ lib' = lib
                  ELSE /\ lib' = library
                       /\ pc' = "build_c"
                       /\ UNCHANGED <<libraries, pkg>>
          ELSE /\ Panic("exit")
               /\ UNCHANGED <<cwd, env, cfg, old_dir, library, libraries, pkg, lib>>
    /\ UNCHANGED <<env0, featureStatic, vendor, statik, result, tried, MAKE,
                   steps, toolFailed, stdout, cfgVars>>

\* build's end: set_current_dir(&old_dir), which may fail, and unset_env_libs();
\* build_libs then pushes the library and calls the next build(), or returns
BuildExit ==
    /\ pc = "exit"
    /\ \E cd \in BOOLEAN :
          IF cd
          THEN /\ cwd' = Unwrap(old_dir)
               /\ env' = unset_env_libs(env)
               /\ ended' = ended \cup {[package |-> Packages[pkg], how |-> "returned"]}
               /\ cfg' = None
               /\ old_dir' = None
               /\ library' = None
               /\ panicFrom' = panicFrom
               /\ IF pkg < Len(Packages)
                  THEN /\ libraries' = Append(libraries, Unwrap(library))
                       /\ pkg' = pkg + 1
                       /\ pc' = "new_cfg"
                       /\ lib' = lib
                  ELSE /\ lib' = library
                       /\ pc' = "build_c"
                       /\ UNCHANGED <<libraries, pkg>>
          ELSE /\ Panic("exit")
               /\ UNCHANGED <<cwd, env, cfg, old_dir, library, libraries, pkg, lib>>
    /\ UNCHANGED <<env0, featureStatic, vendor, statik, result, tried, MAKE,
                   steps, toolFailed, stdout, cfgVars>>

\* build_c: the glue object; cc's compile() panics when the compiler fails
BuildC ==
    /\ pc = "build_c"
    /\ \E ok \in BOOLEAN :
          IF ok
          THEN pc' = "main_end" /\ UNCHANGED <<panicFrom, ended>>
          ELSE Panic("build_c")
    /\ UNCHANGED <<env, env0, cwd, featureStatic, vendor, statik, result, tried,
                   MAKE, pkg, cfg, old_dir, libraries, library, lib, steps,
                   toolFailed, stdout, cfgVars>>

\* main's end: the linkage directive
MainEnd ==
    /\ pc = "main_end"
    /\ stdout' = IF statik THEN Append(stdout, StaticDirective) ELSE stdout
    /\ pc' = "done"
    /\ UNCHANGED <<panicFrom, env, env0, cwd, featureStatic, vendor, statik,
                   result, tried, MAKE, pkg, cfg, old_dir, libraries, library,
                   lib, steps, toolFailed, ended, cfgVars>>

Next ==
    \/ MainStart
    \/ MainBranch
    \/ CheckMake(FewMakeOutputs)
    \/ BuildLibs
    \/ BuildNewConfig
    \/ BuildEnter
    \/ Extract
    \/ Patch
    \/ Configure
    \/ Install
    \/ Probe
    \/ BuildExit
    \/ BuildC
    \/ MainEnd

Spec == Init /\ [][Next]_vars

(***************************************************************************)
(* GNU Make detection over every output a candidate may print.             *)
(***************************************************************************)
InitMake ==
    /\ Init
    /\ vendor = Shipped
    /\ \A k \in {"CFLAGS", OLD_CFLAGS_ENV, "CPPFLAGS", "LDFLAGS"} : env[k] = None

NextMake ==
    \/ MainStart
    \/ MainBranch
    \/ CheckMake(MakeOutputs)

SpecMake == InitMake /\ [][NextMake]_vars

(***************************************************************************)
(* Path derivation: two calls of BuildConfig::new on drawn arguments.      *)
(***************************************************************************)
InitCfg ==
    /\ InitMain
    /\ featureStatic = FALSE
    /\ vendor = Shipped
    /\ \A k \in {"CC", "CFLAGS", OLD_CFLAGS_ENV, "CPPFLAGS", "LDFLAGS",
                  "PKG_CONFIG_PATH", "NEWT_STATIC"} : env[k] = None
    /\ qa \in CfgInputs
    /\ qb \in CfgInputs
    /\ ra = None
    /\ rb = None

\* the first call
CallA ==
    /\ ra = None
    /\ ra' = BuildConfig_new(qa.package, qa.version, CfgEnv(qa), CfgVendor(qa))
    /\ UNCHANGED <<mainVars, qa, qb, rb>>

\* the second call
CallB ==
    /\ rb = None
    /\ rb' = BuildConfig_new(qb.package, qb.version, CfgEnv(qb), CfgVendor(qb))
    /\ UNCHANGED <<mainVars, qa, qb, ra>>

NextCfg == CallA \/ CallB

SpecCfg == InitCfg /\ [][NextCfg]_vars

(***************************************************************************)
(* The orchestration over every vendor directory and every target triple,  *)
(* started in an environment that sets none of the optional variables.     *)
(***************************************************************************)
\* every archive find_archive may look for
AllArchives ==
    {Archive(Packages[i] \o "-" \o Versions[i], Extensions[j]) :
        i \in DOMAIN Packages, j \in DOMAIN Extensions}

InputEnvs ==
    {[k \in EnvNames |->
        CASE k = "OUT_DIR" -> Some(OutDir)
          [] k = "TARGET" -> Some(t)
          [] k = "CARGO_MANIFEST_DIR" -> Some(TOP)
          [] OTHER -> None] : t \in CfgTargets}

InitInputs ==
    /\ pc = "main_start"
    /\ panicFrom = ""
    /\ env \in InputEnvs
    /\ env0 = env
    /\ cwd = TOP
    /\ featureStatic \in BOOLEAN
    /\ vendor \in SUBSET AllArchives
    /\ statik = FALSE
    /\ result = None
    /\ tried = << >>
    /\ MAKE = None
    /\ pkg = 0
    /\ cfg = None
    /\ old_dir = None
    /\ libraries = << >>
    /\ library = None
    /\ lib = None
    /\ steps = << >>
    /\ toolFailed = FALSE
    /\ ended = {}
    /\ stdout = << >>
    /\ qa = [package |-> "popt", version |-> "1.19", out_dir |-> "/tmp/x",
             target |-> "x86_64-unknown-linux-gnu", cflags |-> None,
             bz2 |-> FALSE]
    /\ qb = qa
    /\ ra = None
    /\ rb = None

SpecInputs == InitInputs /\ [][Next]_vars

(***************************************************************************)
(* Flag injection: one call of export_env_libs on drawn descriptors of     *)
(* popt and slang, in an environment that may already hold flags.          *)
(***************************************************************************)
\* the largest number of include paths, and of link paths, of a drawn descriptor
MaxExportPaths == 2

\* the descriptors a probe of `name`, installed below `prefix`, may return
ExportLibraries(name, prefix) ==
    {Library(name, prefix, n, m) : n \in 0..MaxExportPaths, m \in 0..MaxExportPaths}

ExportEnvs ==
    {[k \in EnvNames |->
        CASE k = "OUT_DIR" -> Some(OutDir)
          [] k = "TARGET" -> Some("x86_64-unknown-linux-gnu")
          [] k = "CARGO_MANIFEST_DIR" -> Some(TOP)
          [] k = "CPPFLAGS" -> cpp
          [] k = "LDFLAGS" -> ld
          [] OTHER -> None] :
        cpp \in {None, Some("-I/opt/include")},
        ld \in {None, Some("-L/opt/lib")}}

InitExport ==
    /\ pc = "export"
    /\ panicFrom = ""
    /\ env \in ExportEnvs
    /\ env0 = env
    /\ cwd = TOP
    /\ featureStatic = FALSE
    /\ vendor = Shipped
    /\ statik = FALSE
    /\ result = None
    /\ tried = << >>
    /\ MAKE = None
    /\ pkg = 3
    /\ cfg = None
    /\ old_dir = None
    /\ \E popt \in ExportLibraries("popt", OutDir \o "/install/popt-" \o POPT_VERSION),
          slang \in ExportLibraries("slang", OutDir \o "/install/slang-" \o SLANG_VERSION) :
          libraries = <<popt, slang>>
    /\ library = None
    /\ lib = None
    /\ steps = << >>
    /\ toolFailed = FALSE
    /\ ended = {}
    /\ stdout = << >>
    /\ qa = [package |-> "popt", version |-> "1.19", out_dir |-> "/tmp/x",
             target |-> "x86_64-unknown-linux-gnu", cflags |-> None,
             bz2 |-> FALSE]
    /\ qb = qa
    /\ ra = None
    /\ rb = None

\* the call export_env_libs(&libraries)
ExportEnvLibs ==
    /\ pc = "export"
    /\ env' = export_env_libs(env, libraries)
    /\ pc' = "exported"
    /\ UNCHANGED <<panicFrom, env0, cwd, featureStatic, vendor, statik, result,
                   tried, MAKE, pkg, cfg, old_dir, libraries, library, lib, steps,
                   toolFailed, ended, stdout, cfgVars>>

NextExport == ExportEnvLibs

SpecExport == InitExport /\ [][NextExport]_vars

(***************************************************************************)
(* Properties.                                                             *)
(***************************************************************************)
\* the elements of a sequence
Range(seq) == {seq[i] : i \in DOMAIN seq}

\* build() has injected (or skipped injecting) and has not yet cleared
InBracket == pc \in {"extract", "patch", "configure", "install", "probe", "exit"}

\* the steps of a recipe whose failure ends the bracket: extract, configure,
\* install, probe
RecipeSteps == {"extract", "configure", "install", "probe"}

\* static linking was requested: the static feature, or NEWT_STATIC at start
Requested == featureStatic \/ IsSome(env0["NEWT_STATIC"])

\* A bracket of build() has ended and none is open: build() returned, or the
\* process panicked in one of the recipe's steps.
BracketEnded ==
    IF pc = "panicked"
    THEN panicFrom \in RecipeSteps
    ELSE ended # {} /\ ~InBracket

\* C1: once the dependency-injection bracket of build() has ended, by return
\* or by the failure of extract, configure, install or probe, CPPFLAGS and
\* LDFLAGS are both empty or unset.
C1_FlagsClearedAfterBracket ==
    BracketEnded =>
        /\ UnwrapOrDefault(env["CPPFLAGS"]) = ""
        /\ UnwrapOrDefault(env["LDFLAGS"]) = ""

\* C2: once slang's build has ended, by return or by a failure at any step,
\* CFLAGS has exactly the value it had before the build, and is absent if it
\* was absent.
C2_CflagsRestoredAfterSlang ==
    (\E e \in ended : e.package = "slang") => env["CFLAGS"] = env0["CFLAGS"]

\* C3: once a tar, configure or make has exited non-zero or failed to spawn,
\* no further recipe step of any package is executed.
C3_ToolFailureAborts == [][toolFailed => steps' = steps]_vars

\* the positions in steps of step `step` of package `package`
StepIndexes(package, step) ==
    {i \in DOMAIN steps : steps[i].package = package /\ steps[i].step = step}

\* every path of `paths` is in the flags value `flags`, behind `marker`
FlagsHold(flags, marker, paths) ==
    \A i \in DOMAIN paths : Contains(UnwrapOrDefault(flags), marker \o paths[i] \o " ")

\* newt's configure or install is about to run or has just run
NewtConfiguring ==
    /\ pkg = 3
    /\ \/ pc \in {"configure", "install", "probe"}
       \/ pc = "panicked" /\ panicFrom \in {"configure", "install"}

\* C4: popt's install step and slang's install step have both run to their
\* end before newt's configure step begins, and the CPPFLAGS and LDFLAGS in
\* effect during newt's configure and install hold the include and link paths
\* of the popt descriptor and of the slang descriptor.
C4_NewtAfterDependencies ==
    /\ \A i \in StepIndexes("newt", "configure") :
          /\ \E j \in StepIndexes("popt", "install") : j < i
          /\ \E k \in StepIndexes("slang", "install") : k < i
    /\ NewtConfiguring =>
          /\ Len(libraries) = 2
          /\ libraries[1].name = "popt"
          /\ libraries[2].name = "slang"
          /\ \A d \in 1..2 :
                /\ FlagsHold(env["CPPFLAGS"], "-I", libraries[d].include_paths)
                /\ FlagsHold(env["LDFLAGS"], "-L", libraries[d].link_paths)

\* newt's install has run with paths of both descriptors injected
C4_Witness ==
    /\ pkg = 3
    /\ pc = "probe"
    /\ StepIndexes("newt", "install") # {}
    /\ libraries[1].include_paths # << >>
    /\ libraries[2].link_paths # << >>
    /\ IsSome(env["CPPFLAGS"])
    /\ IsSome(env["LDFLAGS"])

\* main has bound the system-wide probe's descriptor and no recipe step has run
UsesSystem == IsSome(lib) /\ lib = result /\ steps = << >>

\* the system-wide probe succeeded and static linking was not requested
SystemSuffices == IsSome(result) /\ ~Requested

\* C5: the system descriptor is used, and no source-build step runs, if and
\* only if the system-wide probe succeeded and static linking was not
\* requested; in every other case a run that comes to build the glue object
\* has built popt, slang and newt from source.
C5_SystemOrSource ==
    /\ pc \notin {"main_start", "main_branch"} => (UsesSystem <=> SystemSuffices)
    /\ steps # << >> => ~SystemSuffices
    /\ (pc \in {"build_c", "main_end", "done"} /\ ~SystemSuffices) =>
          /\ \A i \in DOMAIN Packages :
                /\ [package |-> Packages[i], how |-> "returned"] \in ended
                /\ StepIndexes(Packages[i], "install") # {}
          /\ IsSome(lib)
          /\ Unwrap(lib).name = "libnewt"

\* a finished run that used the system descriptor
C5_Witness == pc = "done" /\ UsesSystem /\ SystemSuffices

\* find_gnu_make has run every candidate and accepted none
NoMakeAccepted == Len(tried) = Len(Candidates) /\ MAKE = None

\* C6: when neither make nor gmake is accepted as GNU Make the process has
\* aborted, no recipe step has run, and CFLAGS, CPPFLAGS, LDFLAGS and
\* PKG_CONFIG_PATH are as they were at start.
C6_NoMakeAbortsFirst ==
    NoMakeAccepted =>
        /\ pc = "panicked"
        /\ steps = << >>
        /\ ended = {}
        /\ \A k \in {"CFLAGS", "CPPFLAGS", "LDFLAGS", "PKG_CONFIG_PATH"} :
              env[k] = env0[k]

\* both candidates were rejected with some of the four variables set at start
C6_Witness ==
    /\ NoMakeAccepted
    /\ panicFrom = "find_make"
    /\ IsSome(env0["CPPFLAGS"])
    /\ IsSome(env0["PKG_CONFIG_PATH"])

GnuBanner(output) ==
    /\ output # None
    /\ Len(output[1]) >= 8
    /\ SubSeq(output[1], 1, 8) = "GNU Make"

\* C8: find_gnu_make runs "make" and then "gmake", stops at the first
\* candidate whose output begins with "GNU Make" and returns it; a candidate
\* whose output holds "GNU Make" only later, is empty, or that cannot be
\* spawned is rejected.
C8_FirstGnuMake ==
    /\ Len(tried) <= 2
    /\ \A i \in DOMAIN tried :
          /\ tried[i].make = <<"make", "gmake">>[i]
          /\ i < Len(tried) => ~GnuBanner(tried[i].output)
    /\ tried # << >> =>
          LET last == tried[Len(tried)]
          IN  /\ GnuBanner(last.output) <=> MAKE = Some(last.make)
              /\ ~GnuBanner(last.output) => MAKE = None
              /\ last.output \in {None, Some(""), Some("This is not GNU Make"),
                                  Some("gnu make 4.3")} => MAKE = None
              /\ last.output = Some("GNU Make 4.3\nBuilt for x86_64-pc-linux-gnu")
                    => MAKE = Some(last.make)
    /\ tried = << >> => MAKE = None
    /\ pc = "build_libs" => IsSome(MAKE)

\* "make" printed the words late and was rejected, "gmake" was accepted
C8_Witness ==
    /\ Len(tried) = 2
    /\ tried[1].output = Some("This is not GNU Make")
    /\ tried[2].output = Some("GNU Make 3.81")
    /\ MAKE = Some("gmake")
    /\ pc = "build_libs"

\* the paths of a BuildConfig
Paths(c) == <<c.build_prefix, c.archive_path, c.src_path, c.install_prefix,
              c.pkg_config_path>>

\* the four arguments of the derivation
CfgKeys == {"package", "version", "out_dir", "target"}

\* the arguments in which the two calls differ
Differing == {k \in CfgKeys : qa[k] # qb[k]}

\* both calls have returned
BothCalled == IsSome(ra) /\ IsSome(rb)

\* both calls found the same vendor directory
SameFiles == qa.bz2 = qb.bz2

\* C9 as stated: equal arguments give equal paths, and two calls that differ
\* in exactly one of package, version, output root and target differ in at
\* least one derived path.
C9_AnyInputChangesAPath ==
    BothCalled =>
        /\ (Differing = {} /\ SameFiles) => Paths(Unwrap(ra)) = Paths(Unwrap(rb))
        /\ Cardinality(Differing) = 1 => Paths(Unwrap(ra)) # Paths(Unwrap(rb))

\* C9, amended: equal arguments give an equal BuildConfig on every call that
\* finds the same vendor directory, whatever else the environment holds; two
\* calls that differ in exactly one of package, version and output root
\* differ in at least one derived path; two calls that differ in the target
\* alone derive the same paths.
C9_PathsFollowPackageVersionRoot ==
    BothCalled =>
        /\ (Differing = {} /\ SameFiles) => Unwrap(ra) = Unwrap(rb)
        /\ (Cardinality(Differing) = 1 /\ Differing # {"target"}) =>
              Paths(Unwrap(ra)) # Paths(Unwrap(rb))
        /\ (Differing = {"target"} /\ SameFiles) =>
              Paths(Unwrap(ra)) = Paths(Unwrap(rb))

\* two calls that differ in the target alone have returned: the --host
\* values differ, the paths do not
C9_Witness ==
    /\ BothCalled
    /\ Differing = {"target"}
    /\ SameFiles
    /\ Unwrap(ra).target # Unwrap(rb).target
    /\ Paths(Unwrap(ra)) = Paths(Unwrap(rb))

\* C10: for package P, version V and output root R, build_prefix is R/build,
\* src_path is R/build/P-V, install_prefix is R/install/P-V and
\* pkg_config_path is R/install/P-V/lib/pkgconfig.
C10_DerivedPaths ==
    /\ IsSome(ra) =>
          LET c == Unwrap(ra)
              R == qa.out_dir
              PV == qa.package \o "-" \o qa.version
          IN  /\ c.build_prefix = R \o "/build"
              /\ c.src_path = R \o "/build/" \o PV
              /\ c.install_prefix = R \o "/install/" \o PV
              /\ c.pkg_config_path = R \o "/install/" \o PV \o "/lib/pkgconfig"
    /\ (IsSome(ra) /\ qa.package = "popt" /\ qa.version = "1.19"
            /\ qa.out_dir = "/tmp/x") =>
          /\ Unwrap(ra).build_prefix = "/tmp/x/build"
          /\ Unwrap(ra).src_path = "/tmp/x/build/popt-1.19"
          /\ Unwrap(ra).install_prefix = "/tmp/x/install/popt-1.19"
          /\ Unwrap(ra).pkg_config_path = "/tmp/x/install/popt-1.19/lib/pkgconfig"

\* the derivation for popt 1.19 under /tmp/x has returned
C10_Witness ==
    /\ IsSome(ra)
    /\ qa.package = "popt"
    /\ qa.version = "1.19"
    /\ qa.out_dir = "/tmp/x"
    /\ Unwrap(ra).pkg_config_path = "/tmp/x/install/popt-1.19/lib/pkgconfig"

\* the positions in steps of step `step`, of any package
StepsOf(step) == {i \in DOMAIN steps : steps[i].step = step}

\* C11: the triple riscv64gc-unknown-linux-gnu is translated to
\* riscv64-unknown-linux-gnu and every other triple to itself, and the
\* configure step of each of the three packages is passed the translated
\* triple as --host.
C11_HostIsTranslatedTarget ==
    LET t == Unwrap(env0["TARGET"])
        host == IF t = "riscv64gc-unknown-linux-gnu"
                THEN "riscv64-unknown-linux-gnu"
                ELSE t
    IN  /\ \A i \in StepsOf("configure") : steps[i].detail = "--host " \o host
        /\ IsSome(cfg) => Unwrap(cfg).target = host

\* all three packages have been configured for the riscv64gc triple
C11_Witness ==
    /\ env0["TARGET"] = Some("riscv64gc-unknown-linux-gnu")
    /\ \A p \in Range(Packages) :
          \E i \in StepsOf("configure") :
              /\ steps[i].package = p
              /\ steps[i].detail = "--host riscv64-unknown-linux-gnu"

\* C12: appending the directory P to PKG_CONFIG_PATH gives "V:P" when the
\* variable holds V and exactly "P" when it is unset.  Each recipe appends
\* the pkgconfig directory of its package just before its probe.
C12_AppendJoinsWithColon ==
    [][pc = "probe" =>
          LET P == Unwrap(cfg).pkg_config_path
              V == env["PKG_CONFIG_PATH"]
          IN  env'["PKG_CONFIG_PATH"] =
                  IF IsSome(V) THEN Some(Unwrap(V) \o ":" \o P) ELSE Some(P)]_vars

\* started with the variable unset, popt's directory was appended to nothing
\* and slang's to popt's
C12_Witness ==
    /\ env0["PKG_CONFIG_PATH"] = None
    /\ pkg = 2
    /\ pc = "exit"
    /\ env["PKG_CONFIG_PATH"] =
           Some("/out/install/popt-1.19/lib/pkgconfig:/out/install/slang-2.3.3/lib/pkgconfig")

\* slang's build is under way: from its extract step, which forces -fPIC, to
\* the end of its build()
InSlangBuild ==
    /\ pkg = 2
    /\ pc \in {"patch", "configure", "install", "find_make", "probe", "exit"}

\* C13: when CFLAGS already contains -fPIC as slang's build starts, forcing and
\* restoring are a no-op whatever the environment held at start, _OLD_CFLAGS
\* included: no _OLD_CFLAGS is created, and CFLAGS is never written and is
\* unchanged after the restore.  Nothing writes CFLAGS before slang's build,
\* so the value as the build starts is the value at start.
C13_PicAlreadySetIsNoOp ==
    Contains(UnwrapOrDefault(env0["CFLAGS"]), "-fPIC") =>
        /\ env["CFLAGS"] = env0["CFLAGS"]
        /\ IsSome(env[OLD_CFLAGS_ENV]) => env[OLD_CFLAGS_ENV] = env0[OLD_CFLAGS_ENV]

\* C14: _OLD_CFLAGS is present only while slang is being built: outside
\* slang's build, after an aborted slang build and during popt's and newt's
\* builds included, it is absent.  Stated for the runs that start without it.
C14_OldCflagsOnlyDuringSlang ==
    (env0[OLD_CFLAGS_ENV] = None /\ ~InSlangBuild) => env[OLD_CFLAGS_ENV] = None

\* str::ends_with
EndsWith(s, suffix) ==
    Len(s) >= Len(suffix) /\ SubSeq(s, Len(s) - Len(suffix) + 1, Len(s)) = suffix

\* the run built the libraries from source and main returned
SourceRunDone == pc = "done" /\ pkg = Len(Packages)

\* the pkgconfig directories of popt, slang and newt, joined in that order
BuiltPkgConfigPath ==
    "/out/install/popt-1.19/lib/pkgconfig:/out/install/slang-2.3.3/lib/pkgconfig:/out/install/newt-0.52.25/lib/pkgconfig"

\* a step keeps PKG_CONFIG_PATH set, with its previous value as a prefix
PkgConfigPathGrows ==
    IsSome(env["PKG_CONFIG_PATH"]) =>
        /\ IsSome(env'["PKG_CONFIG_PATH"])
        /\ StartsWith(Unwrap(env'["PKG_CONFIG_PATH"]), Unwrap(env["PKG_CONFIG_PATH"]))

\* C15: within one run PKG_CONFIG_PATH is append-only: every step leaves its
\* previous value as a prefix of its value, never truncates or unsets it, and
\* after a successful from-source run the value ends with the pkgconfig
\* directories of popt, slang and newt, in that order.
C15_PkgConfigPathAppendOnly ==
    /\ [][PkgConfigPathGrows]_vars
    /\ [](SourceRunDone =>
             /\ IsSome(env["PKG_CONFIG_PATH"])
             /\ EndsWith(Unwrap(env["PKG_CONFIG_PATH"]), BuiltPkgConfigPath)
             /\ StartsWith(Unwrap(env["PKG_CONFIG_PATH"]),
                           UnwrapOrDefault(env0["PKG_CONFIG_PATH"])))

\* a from-source run started with a search path has ended
C15_Witness ==
    /\ SourceRunDone
    /\ env0["PKG_CONFIG_PATH"] = Some("/usr/lib/pkgconfig")
    /\ env["PKG_CONFIG_PATH"] = Some("/usr/lib/pkgconfig:" \o BuiltPkgConfigPath)

\* the recipe steps of a from-source run, in order: popt and slang are
\* extracted, patched, configured, installed and probed, newt is not patched
ExpectedSteps ==
    <<<<"popt", "extract">>, <<"popt", "patch">>, <<"popt", "configure">>,
      <<"popt", "install">>, <<"popt", "probe">>,
      <<"slang", "extract">>, <<"slang", "patch">>, <<"slang", "configure">>,
      <<"slang", "install">>, <<"slang", "probe">>,
      <<"newt", "extract">>, <<"newt", "configure">>, <<"newt", "install">>,
      <<"newt", "probe">>>>

\* C16: on a successful from-source run the steps of each package's recipe
\* execute exactly once each, in the order extract, patch (popt and slang
\* only), configure, install, probe; newt is never patched and no step is
\* executed again.  At every moment the steps executed so far are an initial
\* part of that sequence, and all of it once the run has ended.
C16_StepsOnceInOrder ==
    /\ Len(steps) <= Len(ExpectedSteps)
    /\ \A i \in DOMAIN steps : <<steps[i].package, steps[i].step>> = ExpectedSteps[i]
    /\ SourceRunDone => Len(steps) = Len(ExpectedSteps)

\* a from-source run has ended with every tool having exited with status 0
C16_Witness ==
    /\ SourceRunDone
    /\ ~toolFailed
    /\ steps[Len(steps)] = [package |-> "newt", step |-> "probe", detail |-> "libnewt"]

\* a step that changes CC finds it unset and sets it
CcWrittenWhenAbsent ==
    env'["CC"] # env["CC"] => (env["CC"] = None /\ IsSome(env'["CC"]))

\* C17: CC is written only when a compiler was resolved and CC was not in
\* the environment; a CC present at start is never overwritten, and once CC
\* is set it keeps its value for every configure and make spawned later.
C17_CcWrittenOnlyWhenAbsent ==
    /\ [][CcWrittenWhenAbsent]_vars
    /\ [](IsSome(env0["CC"]) => env["CC"] = env0["CC"])
    /\ [](env["CC"] # env0["CC"] => env["CC"] = Some("/usr/bin/cc"))

\* the resolved compiler was published and newt's make has run under it
C17_Witness ==
    /\ env0["CC"] = None
    /\ env["CC"] = Some("/usr/bin/cc")
    /\ pkg = 3
    /\ pc = "probe"

\* C18: the compiler is resolved and CC published only on the from-source
\* path, and only once a GNU Make has been found; on the path that uses the
\* system library the run changes no environment variable.
C18_CompilerOnlyFromSource ==
    /\ env["CC"] # env0["CC"] => (BuildFromSource(statik, result) /\ IsSome(MAKE))
    /\ UsesSystem => env = env0

\* the vendor directory holds no archive of the i-th package
ArchiveAbsent(i) ==
    \A j \in DOMAIN Extensions :
        Archive(Packages[i] \o "-" \o Versions[i], Extensions[j]) \notin vendor

\* no path of a library built by this run is in CPPFLAGS or LDFLAGS
NothingInjected ==
    \A k \in DOMAIN libraries :
        /\ \A n \in DOMAIN libraries[k].include_paths :
              ~Contains(UnwrapOrDefault(env["CPPFLAGS"]),
                        "-I" \o libraries[k].include_paths[n])
        /\ \A n \in DOMAIN libraries[k].link_paths :
              ~Contains(UnwrapOrDefault(env["LDFLAGS"]),
                        "-L" \o libraries[k].link_paths[n])

\* C19: when the archive of a package is absent, the run aborts at that
\* package before its extract step and before any dependency flag is put
\* into CPPFLAGS or LDFLAGS, and no later package is built.
C19_MissingArchiveAborts ==
    \A i \in DOMAIN Packages :
        ArchiveAbsent(i) =>
            /\ pkg <= i
            /\ \A k \in DOMAIN steps :
                  \A j \in i..Len(Packages) : steps[k].package # Packages[j]
            /\ pkg = i =>
                  /\ pc \in {"new_cfg", "panicked"}
                  /\ pc = "panicked" => panicFrom = "new_cfg"
                  /\ NothingInjected

\* popt and slang were built and reported paths, newt's archive is absent and
\* the run has aborted
C19_Witness ==
    /\ ArchiveAbsent(3)
    /\ pkg = 3
    /\ pc = "panicked"
    /\ panicFrom = "new_cfg"
    /\ Len(libraries) = 2
    /\ libraries[1].include_paths # << >>

\* C20: whatever archive files the vendor directory holds, the archive
\* selected for a package has the format its extract step decompresses:
\* .tar.gz for popt and newt, .tar.bz2 for slang.
C20_ArchiveFormatMatchesExtract ==
    \A i \in StepsOf("extract") :
        /\ steps[i].package \in {"popt", "newt"} =>
              /\ StartsWith(steps[i].detail, "xzf ")
              /\ EndsWith(steps[i].detail, ".tar.gz")
        /\ steps[i].package = "slang" =>
              /\ StartsWith(steps[i].detail, "xjf ")
              /\ EndsWith(steps[i].detail, ".tar.bz2")

RECURSIVE FlagsUpTo(_, _, _)
\* "<marker><path> " for the first k paths, in their order
FlagsUpTo(marker, paths, k) ==
    IF k = 0
    THEN ""
    ELSE FlagsUpTo(marker, paths, k - 1) \o marker \o paths[k] \o " "

\* the include paths of popt and then of slang, each in its descriptor's order
ExportedIncludePaths == libraries[1].include_paths \o libraries[2].include_paths

\* the link paths of popt and then of slang, each in its descriptor's order
ExportedLinkPaths == libraries[1].link_paths \o libraries[2].link_paths

\* C21: flag injection sets CPPFLAGS to "-I<path> " for every include path,
\* popt's before slang's and each descriptor's in its own order, and LDFLAGS
\* to "-L<path> " for every link path likewise; the value replaces what the
\* variable held, and a variable the dependencies give no path for is left
\* as it was.
C21_InjectedFlags ==
    pc = "exported" =>
        /\ env["CPPFLAGS"] =
              IF ExportedIncludePaths = << >>
              THEN env0["CPPFLAGS"]
              ELSE Some(FlagsUpTo("-I", ExportedIncludePaths, Len(ExportedIncludePaths)))
        /\ env["LDFLAGS"] =
              IF ExportedLinkPaths = << >>
              THEN env0["LDFLAGS"]
              ELSE Some(FlagsUpTo("-L", ExportedLinkPaths, Len(ExportedLinkPaths)))
        /\ \A k \in EnvNames \ {"CPPFLAGS", "LDFLAGS"} : env[k] = env0[k]

\* both variables held a value; popt gave two include paths and slang one,
\* neither gave a link path: CPPFLAGS was replaced and LDFLAGS left alone
C21_Witness ==
    /\ pc = "exported"
    /\ env0["CPPFLAGS"] = Some("-I/opt/include")
    /\ env0["LDFLAGS"] = Some("-L/opt/lib")
    /\ Len(libraries[1].include_paths) = 2
    /\ Len(libraries[2].include_paths) = 1
    /\ ExportedLinkPaths = << >>
    /\ env["CPPFLAGS"] =
           Some("-I/out/install/popt-1.19/include -I/out/install/popt-1.19/include/sub -I/out/install/slang-2.3.3/include ")
    /\ env["LDFLAGS"] = Some("-L/opt/lib")

\* a build() has returned and no build() has changed directory since
AfterBuildReturned ==
    /\ \E e \in ended : e.how = "returned"
    /\ IF pc = "panicked"
       THEN panicFrom \in {"new_cfg", "enter", "build_c"}
       ELSE pc \in {"new_cfg", "enter", "build_c", "main_end", "done"}

\* C22: after build() has returned for a package the working directory is
\* the one build() was called in, so that after the three builds build_c runs
\* in the directory the script was started in, the crate's, where
\* src/colorset_custom.c resolves.
C22_CwdRestored ==
    /\ AfterBuildReturned => cwd = TOP
    /\ pc = "build_c" => cwd = Unwrap(env0["CARGO_MANIFEST_DIR"])

\* the three builds have returned and build_c is about to run
C22_Witness ==
    /\ pc = "build_c"
    /\ \A p \in Range(Packages) : [package |-> p, how |-> "returned"] \in ended
    /\ cwd = TOP

====
